---- MODULE Spec2Model ----
(***************************************************************************)
(* Model of nassa/analyses/utils/heatmaps.py: the axis ordering            *)
(* (get_axes), the table reordering (reorder_labels), the split-triangle   *)
(* tessellation (arlequin_plot), the right join of bconf_heatmap, the      *)
(* reindexing and tick placement of correlation_plot and the category      *)
(* grouping of basepair_plot.                                              *)
(*                                                                         *)
(* Strings are modelled as sequences of one-character strings, so that     *)
(* str.join and slicing are computed.  A table (DataFrame) is a record     *)
(* [columns, rows]: the column names in order and, per row, the tuple of   *)
(* the values in those columns.                                            *)
(***************************************************************************)
EXTENDS Integers, Sequences, FiniteSets, TLC

VARIABLES
    op,      \* the function called last ("none" before any call)
    status,  \* how that call ended: "returned" or the exception raised
    axes,    \* get_axes: its arguments and the three lists it returns
    order,   \* reorder_labels: the tetramer_order argument
    df0,     \* the caller's table as it was before the call
    df,      \* the caller's table object after the call
    ret,     \* the table returned by reorder_labels
    again,   \* the table returned by reorder_labels applied to ret
    tri,     \* arlequin_plot: M, N and the two triangle lists
    merged,  \* bconf_heatmap: df after the merge
    corr,    \* correlation_plot: coordinates, reordered index and locs
    bp       \* basepair_plot: category series, panels and combined matrix

vars == <<op, status, axes, order, df0, df, ret, again, tri, merged, corr, bp>>

----------------------------------------------------------------------------
(* Bounds of the model *)

\* longest input table, in rows
MaxRows == 2
\* most coordinates (outer keys) of a correlation matrix
MaxCoords == 3
\* most units (inner keys) per coordinate of a correlation matrix
MaxBlock == 4

----------------------------------------------------------------------------
(* Strings *)

\* the one-character strings of the model, in code point order
Chars == <<"A", "C", "G", "T", "X">>

CharRank(c) == CHOOSE i \in 1..Len(Chars) : Chars[i] = c

\* s < t for str, lexicographic by code point
RECURSIVE StrLt(_, _)
StrLt(s, t) ==
    IF Len(t) = 0 THEN FALSE
    ELSE IF Len(s) = 0 THEN TRUE
    ELSE IF s[1] # t[1] THEN CharRank(s[1]) < CharRank(t[1])
    ELSE StrLt(Tail(s), Tail(t))

\* sep.join(parts): the parts with sep between consecutive ones
RECURSIVE Join(_, _)
Join(sep, parts) ==
    IF Len(parts) = 0 THEN <<>>
    ELSE IF Len(parts) = 1 THEN parts[1]
    ELSE parts[1] \o sep \o Join(sep, Tail(parts))

\* the characters of a str, as str.join iterates over them
CharsOf(s) == [i \in 1..Len(s) |-> <<s[i]>>]

\* s[lo:hi] for 0 <= lo <= hi: the slice is clipped to the string
Slice(s, lo, hi) ==
    LET top == IF hi < Len(s) THEN hi ELSE Len(s)
    IN  IF lo >= top THEN <<>> ELSE SubSeq(s, lo + 1, top)

\* lst[::-1]
Reversed(lst) == [i \in 1..Len(lst) |-> lst[Len(lst) + 1 - i]]

\* the concatenation of the lists of a list, which is what a nested
\* comprehension builds: the inner lists one after the other
RECURSIVE Flatten(_)
Flatten(lists) ==
    IF Len(lists) = 0 THEN <<>>
    ELSE IF Len(lists) = 1 THEN lists[1]
    ELSE LET half == Len(lists) \div 2
         IN  Flatten(SubSeq(lists, 1, half))
                 \o Flatten(SubSeq(lists, half + 1, Len(lists)))

NoDuplicates(lst) == \A i, j \in 1..Len(lst) : lst[i] = lst[j] => i = j

----------------------------------------------------------------------------
(* get_axes *)

\* the 4-letter alphabet the flexible symbol is taken from
Bases == {"A", "C", "G", "T"}
\* the context lengths
Lengths == {2, 3, 4}

\* yaxis of get_axes
YAxis(base) ==
    << <<base, base>>, <<base, "C">>, <<"C", base>>, <<"C", "C">>,
       <<"G", base>>, <<"G", "C">>, <<"A", base>>, <<"A", "C">>,
       <<base, "G">>, <<base, "A">>, <<"C", "G">>, <<"C", "A">>,
       <<"G", "G">>, <<"G", "A">>, <<"A", "G">>, <<"A", "A">> >>

\* [b.join(f) for b in xaxis for f in yaxis]: the loops exchanged
TetramerOrderColumnMajor(xaxis, yaxis) ==
    Flatten([i \in 1..Len(xaxis) |->
                [j \in 1..Len(yaxis) |-> Join(xaxis[i], CharsOf(yaxis[j]))]])

\* [b.join(f) for f in yaxis for b in xaxis]
TetramerOrder(xaxis, yaxis) ==
    Flatten([j \in 1..Len(yaxis) |->
                [i \in 1..Len(xaxis) |-> Join(xaxis[i], CharsOf(yaxis[j]))]])

\* get_axes(subunit_len, base).  xaxis is bound only for lengths 4 and 3:
\* any other length reaches the comprehension with xaxis unbound.
get_axes(subunit_len, base) ==
    LET yaxis == YAxis(base)
    IN  IF subunit_len = 4 THEN
            [status |-> "returned", xaxis |-> Reversed(yaxis), yaxis |-> yaxis,
             tetramer_order |-> TetramerOrder(Reversed(yaxis), yaxis)]
        ELSE IF subunit_len = 3 THEN
            [status |-> "returned",
             xaxis |-> << <<"G">>, <<"A">>, <<"C">>, <<base>> >>,
             yaxis |-> yaxis,
             tetramer_order |->
                 TetramerOrder(<< <<"G">>, <<"A">>, <<"C">>, <<base>> >>, yaxis)]
        ELSE
            [status |-> "UnboundLocalError", xaxis |-> <<>>, yaxis |-> yaxis,
             tetramer_order |-> <<>>]

----------------------------------------------------------------------------
(* Tables *)

\* the value pandas gives a missing entry
NaN == -1

Table(columns, rows) == [columns |-> columns, rows |-> rows]

NoTable == Table(<<>>, <<>>)

\* position of a column in a table
ColPos(t, name) == CHOOSE c \in 1..Len(t.columns) : t.columns[c] = name

HasColumn(t, name) == \E c \in 1..Len(t.columns) : t.columns[c] = name

\* df[name]
Column(t, name) == [r \in 1..Len(t.rows) |-> t.rows[r][ColPos(t, name)]]

\* df[name] = values, for a column the table does not have yet
WithColumn(t, name, values) ==
    Table(Append(t.columns, name),
          [r \in 1..Len(t.rows) |-> Append(t.rows[r], values[r])])

\* df.drop(name, axis=1)
RemoveAt(s, c) == [i \in 1..(Len(s) - 1) |-> IF i < c THEN s[i] ELSE s[i + 1]]

DropColumn(t, name) ==
    Table(RemoveAt(t.columns, ColPos(t, name)),
          [r \in 1..Len(t.rows) |-> RemoveAt(t.rows[r], ColPos(t, name))])

\* the permutations of 1..n
Perms(n) == {p \in [1..n -> 1..n] : \A i, j \in 1..n : p[i] = p[j] => i = j}

\* the missing-value test and the comparison of a sorted column, by the
\* dtype of the column: the ranks are numbers (NaN where the key has no
\* rank), the categories are str
IsNa(dtype, a) == dtype = "number" /\ a = NaN
ValueLe(dtype, a, b) == IF dtype = "number" THEN a <= b ELSE ~StrLt(b, a)

\* df.sort_values(by=name), kind="quicksort", na_position="last".  The rows
\* whose value is NaN follow the others in their original order; the others
\* come in nondecreasing order of the value.  quicksort is not a stable sort:
\* rows of equal value come out in whichever order the numpy build at hand
\* leaves them, so every such order is a result.
SortValues(t, name, dtype) ==
    LET v == Column(t, name)
        n == Len(t.rows)
    IN  { Table(t.columns, [i \in 1..n |-> t.rows[p[i]]]) :
            p \in { q \in Perms(n) :
                      \A i, j \in 1..n : i < j =>
                          IF IsNa(dtype, v[q[i]])
                          THEN IsNa(dtype, v[q[j]]) /\ q[i] < q[j]
                          ELSE \/ IsNa(dtype, v[q[j]])
                               \/ ValueLe(dtype, v[q[i]], v[q[j]]) } }

----------------------------------------------------------------------------
(* reorder_labels *)

\* dict(zip(tetramer_order, range(len(tetramer_order)))): a key that occurs
\* more than once keeps the position of its last occurrence
InOrder(tetramer_order, key) ==
    \E p \in 1..Len(tetramer_order) : tetramer_order[p] = key

SortedIndex(tetramer_order, key) ==
    (CHOOSE p \in 1..Len(tetramer_order) :
        /\ tetramer_order[p] = key
        /\ \A q \in 1..Len(tetramer_order) : tetramer_order[q] = key => q <= p) - 1

\* df[subunit_name].map(sorted_index): NaN for a key the dict does not hold
SubunitRank(t, subunit_name, tetramer_order) ==
    [r \in 1..Len(t.rows) |->
        LET key == Column(t, subunit_name)[r]
        IN  IF InOrder(tetramer_order, key)
            THEN SortedIndex(tetramer_order, key) ELSE NaN]

\* reorder_labels(df, subunit_name, tetramer_order): the outcomes, each the
\* caller's table object after the call (df, which the assignment of line 47
\* gave the column subunit_rank) and the table returned (ret).  The index
\* that reset_index renumbers is the position of the row in rows.
reorder_labels(t, subunit_name, tetramer_order) ==
    LET ranked == WithColumn(t, "subunit_rank",
                             SubunitRank(t, subunit_name, tetramer_order))
    IN  { [df |-> ranked, ret |-> DropColumn(s, "subunit_rank")] :
            s \in SortValues(ranked, "subunit_rank", "number") }

----------------------------------------------------------------------------
(* The tessellation of arlequin_plot *)

\* N = 4 ** 2 and M = 4 ** (unit_len - 2)
FlankCombinations == 4 ^ 2
MiddleCombinations(unit_len) == 4 ^ (unit_len - 2)

\* upper_triangle with the corner of lower_triangle: the diagonal turned
UpperTriangleOtherDiagonal(M, N) ==
    Flatten([jj \in 1..N |-> [ii \in 1..M |->
        LET i == ii - 1
            j == jj - 1
        IN  <<i + j * (M + 1), i + 1 + j * (M + 1), i + (j + 1) * (M + 1)>>]])

\* upper_triangle, for j in range(N) for i in range(M)
UpperTriangle(M, N) ==
    Flatten([jj \in 1..N |-> [ii \in 1..M |->
        LET i == ii - 1
            j == jj - 1
        IN  <<i + j * (M + 1), i + 1 + j * (M + 1), i + 1 + (j + 1) * (M + 1)>>]])

\* lower_triangle, for j in range(N) for i in range(M)
LowerTriangle(M, N) ==
    Flatten([jj \in 1..N |-> [ii \in 1..M |->
        LET i == ii - 1
            j == jj - 1
        IN  <<i + j * (M + 1), i + 1 + (j + 1) * (M + 1), i + (j + 1) * (M + 1)>>]])

NoTriangles == [M |-> 0, N |-> 0, upper |-> <<>>, lower |-> <<>>,
                sz1 |-> <<>>, sz2 |-> <<>>]

----------------------------------------------------------------------------
(* The input tables of reorder_labels and arlequin_plot *)

\* keys of the input tables: three keys of the canonical orders (two of
\* length 4, one of length 3) and one key that no order holds
KeyPool == { <<"G", "G", "G", "G">>, <<"A", "A", "A", "A">>,
             <<"G", "A", "G">>, <<"X", "X", "X", "X">> }

\* the (col1, col2) payloads of the input rows
Payloads == { <<0, 1>>, <<1, 0>> }

InputColumns == <<"tetramer", "col1", "col2">>

InputRows == { <<k, v[1], v[2]>> : k \in KeyPool, v \in Payloads }

InputTables ==
    { Table(InputColumns, rows) :
        rows \in UNION { [1..n -> InputRows] : n \in 0..MaxRows } }

----------------------------------------------------------------------------
(* bconf_heatmap *)

\* xaxis of bconf_heatmap; yaxis is its copy
BconfAxis(base) ==
    << <<"G", "G">>, <<"G", "A">>, <<"A", "G">>, <<"A", "A">>,
       <<"G", "C">>, <<"G", base>>, <<"A", base>>, <<"A", "C">>,
       <<"C", "A">>, <<base, "A">>, <<base, "G">>, <<"C", "G">>,
       <<"C", "C">>, <<"C", base>>, <<base, "C">>, <<base, base>> >>

\* the rows of the left table whose key is k, in their order
RECURSIVE RowsWithKey(_, _)
RowsWithKey(rows, k) ==
    IF Len(rows) = 0 THEN <<>>
    ELSE IF rows[1][1] = k THEN <<rows[1]>> \o RowsWithKey(Tail(rows), k)
    ELSE RowsWithKey(Tail(rows), k)

\* df.merge(tetramer_order, how="right", on="tetramer"): the keys of the
\* right table in their order; each with every row of df that has the key,
\* or with one row of NaN when df has none.  Rows of df whose key the right
\* table lacks are left out.
MergeRight(t, keys) ==
    Table(t.columns,
          Flatten([p \in 1..Len(keys) |->
              IF Len(RowsWithKey(t.rows, keys[p])) = 0
              THEN << <<keys[p], NaN>> >>
              ELSE RowsWithKey(t.rows, keys[p])]))

\* the percentages of the input rows
Pcts == {0, 1}

BconfTables ==
    { Table(<<"tetramer", "pct">>, rows) :
        rows \in UNION { [1..n -> KeyPool \X Pcts] : n \in 0..MaxRows } }

----------------------------------------------------------------------------
(* correlation_plot *)

\* the coordinates (outer keys), in ascending order
CoordNames == <<"rise", "shift", "slide", "twist">>

\* the units (inner keys), in ascending order
UnitNames == << <<"A", "A">>, <<"A", "C">>, <<"A", "G">>, <<"A", "T">>,
                <<"C", "A">>, <<"C", "C">> >>

CoordRank(c) == CHOOSE i \in 1..Len(CoordNames) : CoordNames[i] = c

\* the two-level index of a matrix of K coordinates with B units each, as
\* the upstream statistics lay it out: coordinate by coordinate
CorrIndex(K, B) ==
    Flatten([c \in 1..K |-> [u \in 1..B |-> <<CoordNames[c], UnitNames[u]>>]])

\* list(set(...)) of the outer keys: the set in an order the hashing picks
Coordinates(index) ==
    LET S == { index[i][1] : i \in 1..Len(index) }
    IN  { l \in [1..Cardinality(S) -> S] : \A c \in S : \E i \in DOMAIN l : l[i] = c }

\* the entries of an index with outer key c, in their order
RECURSIVE WithOuter(_, _)
WithOuter(index, c) ==
    IF Len(index) = 0 THEN <<>>
    ELSE IF index[1][1] = c THEN <<index[1]>> \o WithOuter(Tail(index), c)
    ELSE WithOuter(Tail(index), c)

\* data.loc[coordinates], and [coordinates] on the columns
LocCoordinates(index, coordinates) ==
    Flatten([k \in 1..Len(coordinates) |-> WithOuter(index, coordinates[k])])

\* the order of sort_index(level=1): sort_remaining is True, so the entries
\* are ordered by the inner key and, for equal inner keys, by the outer key
Level1Lt(a, b) ==
    \/ StrLt(a[2], b[2])
    \/ a[2] = b[2] /\ CoordRank(a[1]) < CoordRank(b[1])

RECURSIVE InsertLevel1(_, _)
InsertLevel1(x, sorted) ==
    IF Len(sorted) = 0 THEN <<x>>
    ELSE IF Level1Lt(x, sorted[1]) THEN <<x>> \o sorted
    ELSE <<sorted[1]>> \o InsertLevel1(x, Tail(sorted))

\* index.sort_index(level=1)
RECURSIVE SortIndexLevel1(_)
SortIndexLevel1(index) ==
    IF Len(index) = 0 THEN <<>>
    ELSE InsertLevel1(index[Len(index)],
                      SortIndexLevel1(SubSeq(index, 1, Len(index) - 1)))

\* itertools.combinations_with_replacement(coordinates, r=2)
CoordinatePairs(coordinates) ==
    Flatten([a \in 1..Len(coordinates) |->
        [d \in 1..(Len(coordinates) + 1 - a) |->
            <<coordinates[a], coordinates[a + d - 1]>>]])

\* np.arange(start, stop, step) for step > 0
Arange(start, stop, step) ==
    LET n == IF stop <= start THEN 0 ELSE (stop - start + step - 1) \div step
    IN  [k \in 1..n |-> start + (k - 1) * step]

NoCorr == [K |-> 0, B |-> 0, coordinates |-> <<>>, rows |-> <<>>,
           columns |-> <<>>, panels |-> <<>>, locs |-> <<>>]

----------------------------------------------------------------------------
(* basepair_plot *)

\* index keys of the input matrices of basepair_plot
BasepairKeys == { <<"A", "T", "G", "C">>, <<"C", "T", "G", "A">>,
                  <<"G", "A", "G">>, <<"A", "T">>, <<"A">> }

\* a matrix is a table whose rows start with their index key
BasepairTables ==
    { Table(<<"index", "AA">>, rows) :
        rows \in UNION { [1..n -> BasepairKeys \X Pcts] : n \in 0..MaxRows } }

\* data.index.to_series().apply(lambda s: s[1:3])
Category(t) == [r \in 1..Len(t.rows) |-> Slice(t.rows[r][1], 1, 3)]

\* category.unique(): the values in the order of their first occurrence
RECURSIVE Unique(_)
Unique(values) ==
    IF Len(values) = 0 THEN <<>>
    ELSE LET front == Unique(SubSeq(values, 1, Len(values) - 1))
             last == values[Len(values)]
         IN  IF \E i \in 1..Len(front) : front[i] = last
             THEN front ELSE Append(front, last)

\* data[data["category"] == cat]
RECURSIVE RowsWhere(_, _, _)
RowsWhere(rows, c, value) ==
    IF Len(rows) = 0 THEN <<>>
    ELSE IF rows[1][c] = value
         THEN <<rows[1]>> \o RowsWhere(Tail(rows), c, value)
         ELSE RowsWhere(Tail(rows), c, value)

\* the per-category matrices of the loop of basepair_plot
CategoryPanels(t, cats) ==
    [k \in 1..Len(cats) |->
        [cat |-> cats[k],
         cat_df |-> DropColumn(
             Table(t.columns, RowsWhere(t.rows, ColPos(t, "category"), cats[k])),
             "category")]]

NoBasepair == [category |-> <<>>, panels |-> <<>>, combined |-> NoTable]

----------------------------------------------------------------------------
(* The state before any call *)

NoAxes == [subunit_len |-> 0, base |-> "", xaxis |-> <<>>, yaxis |-> <<>>,
           tetramer_order |-> <<>>]

Init ==
    /\ op = "none"
    /\ status = "none"
    /\ axes = NoAxes
    /\ order = <<>>
    /\ df0 = NoTable
    /\ df = NoTable
    /\ ret = NoTable
    /\ again = NoTable
    /\ tri = NoTriangles
    /\ merged = NoTable
    /\ corr = NoCorr
    /\ bp = NoBasepair

----------------------------------------------------------------------------
(* The calls *)

\* get_axes(subunit_len, base)
GetAxes ==
    /\ op = "none"
    /\ \E subunit_len \in Lengths, base \in Bases :
         LET r == get_axes(subunit_len, base)
         IN  /\ op' = "get_axes"
             /\ status' = r.status
             /\ axes' = [subunit_len |-> subunit_len, base |-> base,
                         xaxis |-> r.xaxis, yaxis |-> r.yaxis,
                         tetramer_order |-> r.tetramer_order]
    /\ UNCHANGED <<order, df0, df, ret, again, tri, merged, corr, bp>>

\* reorder_labels(df, "tetramer", tetramer_order) with the tetramer_order of
\* a get_axes call that returned
ReorderLabels ==
    /\ op = "none"
    /\ \E subunit_len \in Lengths, base \in Bases, t \in InputTables :
         LET r == get_axes(subunit_len, base)
         IN  /\ r.status = "returned"
             /\ \E o \in reorder_labels(t, "tetramer", r.tetramer_order) :
                  /\ op' = "reorder_labels"
                  /\ status' = "returned"
                  /\ order' = r.tetramer_order
                  /\ df0' = t
                  /\ df' = o.df
                  /\ ret' = o.ret
    /\ UNCHANGED <<axes, again, tri, merged, corr, bp>>

\* reorder_labels applied, with the same tetramer_order, to the table a
\* first call returned: the argument is now ret, which gets the rank column
ReorderAgain ==
    /\ op = "reorder_labels"
    /\ \E o \in reorder_labels(ret, "tetramer", order) :
         /\ op' = "reorder_labels_again"
         /\ status' = "returned"
         /\ ret' = o.df
         /\ again' = o.ret
    /\ UNCHANGED <<axes, order, df0, df, tri, merged, corr, bp>>

\* arlequin_plot(df, ..., unit_len=unit_len, base=base), to the two
\* Triangulation calls; what follows draws and saves the figure
ArlequinPlot ==
    /\ op = "none"
    /\ \E unit_len \in Lengths, base \in Bases, t \in InputTables :
         LET r == get_axes(unit_len, base)
             M == MiddleCombinations(unit_len)
             N == FlankCombinations
         IN  /\ op' = "arlequin_plot"
             /\ df0' = t
             /\ axes' = [subunit_len |-> unit_len, base |-> base,
                         xaxis |-> r.xaxis, yaxis |-> r.yaxis,
                         tetramer_order |-> r.tetramer_order]
             /\ IF r.status # "returned"
                THEN /\ status' = r.status
                     /\ df' = t
                     /\ UNCHANGED <<order, ret, tri>>
                ELSE \E o \in reorder_labels(t, "tetramer", r.tetramer_order) :
                       /\ status' = "returned"
                       /\ order' = r.tetramer_order
                       /\ df' = o.df
                       /\ ret' = o.ret
                       /\ tri' = [M |-> M, N |-> N,
                                  upper |-> UpperTriangle(M, N),
                                  lower |-> LowerTriangle(M, N),
                                  sz1 |-> Column(o.ret, "col1"),
                                  sz2 |-> Column(o.ret, "col2")]
    /\ UNCHANGED <<again, merged, corr, bp>>

\* bconf_heatmap(df, fname, save_path, base), to the reshape of line 166
BconfHeatmap ==
    /\ op = "none"
    /\ \E base \in Bases, t \in BconfTables :
         LET axis == BconfAxis(base)
             m == MergeRight(t, TetramerOrder(axis, axis))
         IN  /\ op' = "bconf_heatmap"
             /\ axes' = [NoAxes EXCEPT !.base = base, !.xaxis = axis,
                         !.yaxis = axis,
                         !.tetramer_order = TetramerOrder(axis, axis)]
             /\ df0' = t
             /\ df' = t
             /\ merged' = m
             /\ status' = IF Len(m.rows) = 16 * 16
                          THEN "returned" ELSE "ValueError"
    /\ UNCHANGED <<order, ret, again, tri, corr, bp>>

\* correlation_plot(data, ...) for a matrix of K coordinates with B units
\* each, to the tick positions of line 244
CorrelationPlot ==
    /\ op = "none"
    /\ \E K \in 1..MaxCoords, B \in 1..MaxBlock :
       \E coordinates \in Coordinates(CorrIndex(K, B)) :
         LET index == CorrIndex(K, B)
             rows == SortIndexLevel1(LocCoordinates(index, coordinates))
             columns == SortIndexLevel1(LocCoordinates(index, coordinates))
             start == Len(rows) \div (2 * Len(coordinates))
             step == 2 * start
         IN  /\ op' = "correlation_plot"
             /\ status' = IF step = 0 THEN "ZeroDivisionError" ELSE "returned"
             /\ corr' = [K |-> K, B |-> B, coordinates |-> coordinates,
                         rows |-> rows, columns |-> columns,
                         panels |-> CoordinatePairs(coordinates),
                         locs |-> IF step = 0 THEN <<>>
                                  ELSE Arange(start, Len(rows) - 1, step)]
    /\ UNCHANGED <<axes, order, df0, df, ret, again, tri, merged, bp>>

\* basepair_plot(data, ...): the caller's matrix gets the column category
\* (line 277); the sorted copy of line 311 is the one that loses it again
BasepairPlot ==
    /\ op = "none"
    /\ \E t \in BasepairTables :
         LET category == Category(t)
             data == WithColumn(t, "category", category)
         IN  \E sorted \in SortValues(data, "category", "str") :
               /\ op' = "basepair_plot"
               /\ status' = "returned"
               /\ df0' = t
               /\ df' = data
               /\ bp' = [category |-> category,
                         panels |-> CategoryPanels(data, Unique(category)),
                         combined |-> DropColumn(sorted, "category")]
    /\ UNCHANGED <<axes, order, ret, again, tri, merged, corr>>

Next ==
    \/ GetAxes
    \/ ReorderLabels
    \/ ReorderAgain
    \/ ArlequinPlot
    \/ BconfHeatmap
    \/ CorrelationPlot
    \/ BasepairPlot

Spec == Init /\ [][Next]_vars

----------------------------------------------------------------------------
(* Properties *)

\* the keys of a table, and whether a key is one of them
Keys(t) == [r \in 1..Len(t.rows) |-> t.rows[r][1]]
HasKey(t, k) == \E r \in 1..Len(t.rows) : t.rows[r][1] = k

\* the rank map of an axis order gives no two of its entries the same rank
RanksDistinct(lst) ==
    \A p, q \in 1..Len(lst) :
        p # q => SortedIndex(lst, lst[p]) # SortedIndex(lst, lst[q])

\* C1: for every context length in {2, 3, 4} and every flexible symbol in
\* {A, C, G, T}, get_axes returns a yaxis of exactly 16 keys without
\* duplicates and, for length 3, an xaxis of exactly 4 keys without
\* duplicates, so that the rank map of the order is one-to-one.
C1_AxisOrdersHaveNoDuplicates ==
    op = "get_axes" =>
        /\ status = "returned"
        /\ Len(axes.yaxis) = 16
        /\ NoDuplicates(axes.yaxis)
        /\ RanksDistinct(axes.yaxis)
        /\ axes.subunit_len = 3 =>
               /\ Len(axes.xaxis) = 4
               /\ NoDuplicates(axes.xaxis)
               /\ RanksDistinct(axes.xaxis)

\* C2: the tetramer_order that get_axes returns has |yaxis| * |xaxis|
\* entries, and the entry at position j * |xaxis| + i (from 0) is yaxis[j]
\* with xaxis[i] put between its first and its second symbol.
C2_TetramerOrderIsRowMajorJoin ==
    (op = "get_axes" /\ status = "returned") =>
        LET R == axes.yaxis
            C == axes.xaxis
        IN  /\ Len(axes.tetramer_order) = Len(R) * Len(C)
            /\ \A j \in 0..(Len(R) - 1), i \in 0..(Len(C) - 1) :
                   axes.tetramer_order[j * Len(C) + i + 1]
                       = <<R[j + 1][1]>> \o C[i + 1] \o <<R[j + 1][2]>>

\* get_axes(4, "T") has returned the 256 keys, the second of them TT with
\* AG inserted
C2_Witness ==
    /\ op = "get_axes"
    /\ status = "returned"
    /\ axes.subunit_len = 4
    /\ axes.base = "T"
    /\ Len(axes.tetramer_order) = 256
    /\ axes.tetramer_order[2] = <<"T", "A", "G", "T">>

\* C3: a call of reorder_labels on a table with a key that the axis order
\* lacks ends in DataMismatchError; it does not return a table.
C3_MissingKeyRaises ==
    (/\ op = "reorder_labels"
     /\ \E r \in 1..Len(df0.rows) : ~InOrder(order, Keys(df0)[r]))
        => status = "DataMismatchError"

\* C4: whatever the input table of bconf_heatmap (sparse, with keys outside
\* the canonical set, with a key repeated), the merged table has exactly
\* 256 rows, the canonical keys in canonical order, with the missing value
\* as pct of every canonical key the input lacks, and so reshapes to 16 x 16.
C4_MergeYieldsCanonicalRows ==
    op = "bconf_heatmap" =>
        /\ status = "returned"
        /\ Len(merged.rows) = Len(axes.tetramer_order)
        /\ Len(merged.rows) = 256
        /\ \A p \in 1..Len(merged.rows) :
               /\ p <= Len(axes.tetramer_order)
                      => merged.rows[p][1] = axes.tetramer_order[p]
               /\ ~HasKey(df0, merged.rows[p][1]) => merged.rows[p][2] = NaN

\* C5: for a table whose keys all occur in the axis order, reorder_labels
\* returns the rows in nondecreasing rank of their key, and reorder_labels
\* applied with the same order to that result returns the same row sequence.
\* (After the second call ret carries the ranks of its rows in subunit_rank.)
C5_ReorderIsIdempotent ==
    (/\ op = "reorder_labels_again"
     /\ \A r \in 1..Len(df0.rows) : InOrder(order, Keys(df0)[r]))
        => /\ \A p, q \in 1..Len(ret.rows) :
                  p < q => Column(ret, "subunit_rank")[p]
                               <= Column(ret, "subunit_rank")[q]
           /\ again.rows = DropColumn(ret, "subunit_rank").rows

\* flattened index of the lattice point (i, j) of a grid of M columns
LatticeIndex(M, i, j) == i + j * (M + 1)

Corners(triangle) == {triangle[1], triangle[2], triangle[3]}

\* C6: for the grid (M, N) of arlequin_plot both triangle lists have M * N
\* entries, every index lies in [0, (M+1)*(N+1)), and for every cell (i, j)
\* the entry at position i + j*M of the upper list is the triangle
\* {(i,j), (i+1,j), (i+1,j+1)} and of the lower list {(i,j), (i+1,j+1),
\* (i,j+1)}: the two share exactly the two points of the diagonal
\* (i,j)-(i+1,j+1), and each lies within its cell.
C6_Tessellation ==
    (op = "arlequin_plot" /\ status = "returned") =>
        LET M == tri.M
            N == tri.N
        IN  /\ Len(tri.upper) = M * N
            /\ Len(tri.lower) = M * N
            /\ \A p \in 1..Len(tri.upper) :
                   \A x \in Corners(tri.upper[p]) : 0 <= x /\ x < (M + 1) * (N + 1)
            /\ \A p \in 1..Len(tri.lower) :
                   \A x \in Corners(tri.lower[p]) : 0 <= x /\ x < (M + 1) * (N + 1)
            /\ \A i \in 0..(M - 1), j \in 0..(N - 1) :
                   LET up == Corners(tri.upper[i + j * M + 1])
                       low == Corners(tri.lower[i + j * M + 1])
                   IN  /\ up = {LatticeIndex(M, i, j), LatticeIndex(M, i + 1, j),
                                LatticeIndex(M, i + 1, j + 1)}
                       /\ low = {LatticeIndex(M, i, j), LatticeIndex(M, i + 1, j + 1),
                                 LatticeIndex(M, i, j + 1)}
                       /\ Cardinality(up) = 3
                       /\ Cardinality(low) = 3
                       /\ up \cap low = {LatticeIndex(M, i, j),
                                         LatticeIndex(M, i + 1, j + 1)}
                       /\ Cardinality(up \cap low) = 2

\* arlequin_plot has built the triangles of a 4 x 16 grid (unit_len 3) whose
\* first upper triangle is (0, 1, 6) and last lower triangle (78, 84, 83)
C6_Witness ==
    /\ op = "arlequin_plot"
    /\ status = "returned"
    /\ tri.M = 4
    /\ tri.N = 16
    /\ tri.upper[1] = <<0, 1, 6>>
    /\ tri.lower[64] = <<78, 84, 83>>

\* position of a coordinate in the list coordinates
CoordinatePos(c) ==
    CHOOSE k \in 1..Len(corr.coordinates) : corr.coordinates[k] = c

\* the entries of one coordinate are contiguous on the axis, the blocks are
\* in the order of coordinates and the inner keys ascend within a block
BlocksInOrder(index) ==
    \A p, q \in 1..Len(index) :
        p < q =>
            /\ CoordinatePos(index[p][1]) <= CoordinatePos(index[q][1])
            /\ index[p][1] = index[q][1] => StrLt(index[p][2], index[q][2])
            /\ index[p][1] = index[q][1] =>
                   \A m \in p..q : index[m][1] = index[p][1]

\* C7: after the reordering of correlation_plot the entries of one
\* coordinate are contiguous on the rows and on the columns, the blocks are
\* in the order of the list coordinates, and the inner keys ascend in a block.
C7_CoordinateBlocksContiguous ==
    op = "correlation_plot" =>
        BlocksInOrder(corr.rows) /\ BlocksInOrder(corr.columns)

\* C8: for K coordinates and K equal blocks of B >= 1 rows, correlation_plot
\* computes exactly K tick positions, the k-th at k*B + B div 2, the middle
\* of the k-th block.
C8_TicksAtBlockMidpoints ==
    op = "correlation_plot" =>
        /\ status = "returned"
        /\ Len(corr.locs) = corr.K
        /\ \A k \in 0..(corr.K - 1) :
               k + 1 <= Len(corr.locs) =>
                   /\ corr.locs[k + 1] = k * corr.B + corr.B \div 2
                   /\ k * corr.B <= corr.locs[k + 1]
                   /\ corr.locs[k + 1] < (k + 1) * corr.B

\* C9: after reorder_labels, arlequin_plot or basepair_plot the caller's
\* table has the columns, the rows and the row order it had before the
\* call; no helper column (subunit_rank, category) is left on it.
C9_InputTableUnchanged ==
    op \in {"reorder_labels", "arlequin_plot", "basepair_plot"} =>
        /\ df = df0
        /\ ~HasColumn(df, "subunit_rank")
        /\ ~HasColumn(df, "category")

\* C10: basepair_plot gives every index key of length >= 3 the category of
\* its characters at positions 1 and 2, and a key shorter than 3 makes the
\* call end in an error instead of a shorter or empty category.
C10_CategoryIsPositionFixed ==
    op = "basepair_plot" =>
        /\ \A r \in 1..Len(df0.rows) :
               Len(Keys(df0)[r]) >= 3 =>
                   bp.category[r] = <<Keys(df0)[r][2], Keys(df0)[r][3]>>
        /\ (\E r \in 1..Len(df0.rows) : Len(Keys(df0)[r]) < 3)
               => status # "returned"

====
